---- MODULE Spec2Model ----
(***************************************************************************)
(* Model of check_runtime.py (kmaehashi/chainer-doctor): main() is a       *)
(* straight-line script that probes the host for native libraries and      *)
(* Python packages and prints a report.  The host (environment, native     *)
(* libraries, modules, installed distributions, interpreter) is the input; *)
(* it is fixed at process start and kept in the variable host.  Strings    *)
(* are sequences of string tokens, so a str.format() result is the         *)
(* concatenation of its literal pieces and its formatted arguments.        *)
(***************************************************************************)
EXTENDS Integers, Sequences, FiniteSets, TLC

VARIABLES host, pc, out, envIdx, cupyLoaded, cudart_version, pkgIdx,
          cupy_found, calls, imports, exc

vars == <<host, pc, out, envIdx, cupyLoaded, cudart_version, pkgIdx,
          cupy_found, calls, imports, exc>>

(* ------------------------------------------------------------------ *)
(* Bounds                                                              *)
(* ------------------------------------------------------------------ *)
MaxEnvVars == 2

(* ------------------------------------------------------------------ *)
(* Values                                                              *)
(* ------------------------------------------------------------------ *)
\* Python's None, for values modelled as options: <<>> is None, <<x>> is x.
None == <<>>

Some(x) == <<x>>

\* Names of environment variables, one token per character so that
\* str.startswith is computed on the characters.
EnvNames ==
  { <<"L","D","_","P">>, <<"D","Y","L","D","_","P">>, <<"L","D","P">>,
    <<"P","A","T","H">>, <<"X","L","D","_">>, <<"D","Y","L","D">>,
    <<"l","d","_","p">>, <<"L","D","_">> }

ProbeLibs == {"cuda", "cudart", "cudnn", "nccl"}

LibNames == ProbeLibs \cup {"dl"}

ModNames == {"chainer", "cupy", "numpy"}

cupy_pkgs == <<"cupy", "cupy-cuda80", "cupy-cuda90", "cupy-cuda91">>

CupyPkgNames == {cupy_pkgs[i] : i \in 1..Len(cupy_pkgs)}

PkgNames == CupyPkgNames \cup {"chainer", "numpy"}

\* Status codes a version-query entry point returns (0 = success).
RetCodes == {0, 3}

\* Runtime versions the host's libcudart may report: the boundaries of the
\* four rule ranges and values inside and outside them.
RtVersions ==
  {6999, 7000, 7999, 8000, 8999, 9000, 9050, 9099, 9100, 9199, 9200, 9999,
   10000}

(* ------------------------------------------------------------------ *)
(* Pure helpers                                                        *)
(* ------------------------------------------------------------------ *)
startswith(k, p) == Len(k) >= Len(p) /\ SubSeq(k, 1, Len(p)) = p

\* str(x) / '{}'.format(x) of an int
str(n) == ToString(n)

\* report(title, status): one line, title left-justified, ': ', status.
report(title, status) == [kind |-> "report", title |-> title, text |-> status]

\* print(text): one raw line.
print(text) == [kind |-> "print", title |-> <<>>, text |-> text]

\* header(title): blank line, rule, title, rule.
header(title) ==
  << print(<<>>), print(<<"=" >>), print(<<title>>), print(<<"=" >>) >>


(* ------------------------------------------------------------------ *)
(* The host                                                            *)
(* ------------------------------------------------------------------ *)
\* What ctypes finds for one library name: "absent" (find_library returns
\* None), "broken" (found, CDLL raises OSError) or "ok"; direct is the
\* lookup before, via the lookup after CuPy's extension modules are loaded.
LibProfiles ==
  { [direct |-> "ok", via |-> "ok"],
    [direct |-> "absent", via |-> "ok"],
    [direct |-> "absent", via |-> "absent"],
    [direct |-> "broken", via |-> "broken"] }

LibOk == [direct |-> "ok", via |-> "ok"]

LibAbsent == [direct |-> "absent", via |-> "absent"]

\* What libdl offers: no dladdr symbol, dladdr returning 0, dladdr working.
DladdrKinds == {"missing", "zero", "ok"}

\* What __import__(modname) gives: a package with __version__ and __path__,
\* a package without __version__, a plain module without __path__, or an
\* ImportError.
ModKinds == {"ok", "nover", "nopath", "fail"}

\* Sequences of at most n distinct elements of S: the orders in which
\* os.environ can present at most n variables.
RECURSIVE DistinctSeqs(_, _)
DistinctSeqs(S, n) ==
  IF n = 0 THEN { <<>> }
  ELSE LET shorter == DistinctSeqs(S, n - 1)
           longest == {q \in shorter : Len(q) = n - 1}
       IN shorter \cup
          UNION { { Append(q, x) : x \in S \ {q[i] : i \in 1..Len(q)} }
                  : q \in longest }

MkHost(environ, py, libs, dladdr, cupyExt, ret, ver, mods, pkgs) ==
  [ environ |-> environ, py |-> py, lib |-> libs, dladdr |-> dladdr,
    cupyExt |-> cupyExt, ret |-> ret, ver |-> ver, mods |-> mods,
    pkgs |-> pkgs ]

\* Two surroundings for the part of the host a family does not vary: a
\* machine with everything in place and a machine with nothing.
RichEnviron == << <<"L","D","_","P">>, <<"P","A","T","H">> >>

AllLibs(p) == [l \in LibNames |-> p]

AllRet(c) == [l \in {"cuda", "cudart"} |-> c]

VerWith(v) == [cuda |-> 9010, cudart |-> v, cudnn |-> 7005]

AllMods(k) == [m \in ModNames |-> k]

RichPkgs == {"chainer", "cupy-cuda90", "numpy"}

\* Hosts varying the four probed libraries, the status codes and whether
\* CuPy's extension modules import.
LibHosts ==
  { MkHost(IF rich THEN RichEnviron ELSE <<>>, 3,
           [l \in LibNames |-> IF l = "dl" THEN LibOk ELSE lp[l]],
           "ok", ext, rets, VerWith(9050),
           AllMods(IF rich THEN "ok" ELSE "fail"),
           IF rich THEN RichPkgs ELSE {})
    : lp \in [ProbeLibs -> LibProfiles],
      rets \in [{"cuda", "cudart"} -> RetCodes],
      ext \in BOOLEAN, rich \in BOOLEAN }

\* Hosts varying libdl and dladdr.
DlHosts ==
  { MkHost(<<>>, 3,
           [l \in LibNames |-> IF l = "dl" THEN dl ELSE other],
           da, TRUE, AllRet(0), VerWith(9050), AllMods("ok"), RichPkgs)
    : dl \in LibProfiles, da \in DladdrKinds, other \in LibProfiles }

\* Hosts varying the runtime library, its status code and version, the
\* installed CuPy distributions, the cupy module and the interpreter.
CompatHosts ==
  { MkHost(<<>>, py,
           [l \in LibNames |-> IF l = "cudart" THEN rt ELSE LibOk],
           "ok", TRUE, [cuda |-> 0, cudart |-> rc], VerWith(v),
           [m \in ModNames |-> IF m = "cupy" THEN cm ELSE "ok"],
           cps \cup {"chainer", "numpy"})
    : py \in {2, 3},
      rt \in LibProfiles \ {[direct |-> "broken", via |-> "broken"]},
      rc \in RetCodes, v \in RtVersions, cm \in {"ok", "fail"},
      cps \in SUBSET CupyPkgNames }

\* Hosts varying the three modules and the installed distributions.
ModHosts ==
  { MkHost(<<>>, 3, AllLibs(LibAbsent), "ok", FALSE, AllRet(0),
           VerWith(9050), mods, pkgs)
    : mods \in [ModNames -> ModKinds],
      pkgs \in SUBSET {"chainer", "cupy", "numpy"} }

\* Hosts varying the process environment.
EnvHosts ==
  { MkHost(environ, 3, AllLibs(p), "ok", FALSE, AllRet(0), VerWith(9050),
           AllMods("ok"), RichPkgs)
    : environ \in DistinctSeqs(EnvNames, MaxEnvVars),
      p \in {LibOk, LibAbsent} }

Hosts == LibHosts \cup DlHosts \cup CompatHosts \cup ModHosts \cup EnvHosts

(* ------------------------------------------------------------------ *)
(* The library resolver and the package inspector                      *)
(* ------------------------------------------------------------------ *)
\* get_cdll(name): None when find_library finds nothing or CDLL raises
\* OSError, else the handle.
get_cdll(name) ==
  LET found == IF cupyLoaded THEN host.lib[name].via
               ELSE host.lib[name].direct
  IN IF found = "absent" THEN None
     ELSE IF found = "broken" THEN None
     ELSE Some(name)

\* File a loaded library's symbols come from (dli_fname).
LibFile ==
  [cuda |-> "/usr/lib/libcuda.so", cudart |-> "/usr/lib/libcudart.so",
   cudnn |-> "/usr/lib/libcudnn.so", nccl |-> "/usr/lib/libnccl.so"]

\* get_cdll_path(func): func is a symbol of library lib.
get_cdll_path(lib) ==
  LET libdl == get_cdll("dl")
  IN IF libdl = None \/ host.dladdr = "missing" THEN "N/A"
     ELSE IF host.dladdr = "zero" THEN "(error)"
     ELSE LibFile[lib]

\* get_package(name): the distribution, or None on DistributionNotFound.
get_package(name) ==
  IF name \in host.pkgs
  THEN Some([project_name |-> name, version |-> "1.0",
             location |-> "/site-packages"])
  ELSE None

(* ------------------------------------------------------------------ *)
(* The version probes: each gives the lines it prints and its result   *)
(* ------------------------------------------------------------------ *)
\* version.value after the entry point returned: the version the library
\* wrote on success, the initial value of ctypes.c_int() otherwise.
VersionValue(lib) == IF host.ret[lib] = 0 THEN host.ver[lib] ELSE 0

version_msg(lib) ==
  IF host.ret[lib] = 0 THEN << str(VersionValue(lib)) >>
  ELSE << "(ERROR ", str(host.ret[lib]), "!)" >>

_report_cuda_driver(name) ==
  IF get_cdll("cuda") = None
  THEN [lines |-> << report(name, <<"not found">>) >>, result |-> None]
  ELSE [lines |-> << report(name, <<"OK (version ">> \o version_msg("cuda")
                             \o <<" from ", get_cdll_path("cuda"), ")">>) >>,
        result |-> Some(VersionValue("cuda"))]

_report_cuda_runtime(name) ==
  IF get_cdll("cudart") = None
  THEN [lines |-> << report(name, <<"not found">>) >>, result |-> None]
  ELSE [lines |-> << report(<<"CUDA Runtime">>,
                            <<"OK (version ">> \o version_msg("cudart")
                             \o <<" from ", get_cdll_path("cudart"), ")">>) >>,
        result |-> Some(VersionValue("cudart"))]

_report_cudnn(name) ==
  IF get_cdll("cudnn") = None
  THEN [lines |-> << report(name, <<"not found (optional)">>) >>,
        result |-> FALSE]
  ELSE [lines |-> << report(name, <<"OK (version ", str(host.ver["cudnn"]),
                                    " from ", get_cdll_path("cudnn"), ")">>) >>,
        result |-> TRUE]

_report_nccl(name) ==
  IF get_cdll("nccl") = None
  THEN [lines |-> << report(name, <<"not found (optional)">>) >>,
        result |-> FALSE]
  ELSE [lines |-> << report(name, <<"OK (from ", get_cdll_path("nccl"),
                                    ")">>) >>,
        result |-> TRUE]

\* The label of a probe's second run.
ViaCuPy(title) == << title, " (via CuPy)" >>

(* ------------------------------------------------------------------ *)
(* The module import probe                                             *)
(* ------------------------------------------------------------------ *)
\* The try block of _report_pypkg: __import__, then mod.__version__ and
\* mod.__path__; any Exception becomes 'import failed with <type>: <msg>'.
import_msg(modname) ==
  LET kind == host.mods[modname]
  IN CASE kind = "ok" ->
            << "importing ", "2.0", " from ", "['/site-packages/", modname,
               "']" >>
       [] kind = "nover" ->
            << "import failed with ", "AttributeError", ": ",
               "module has no attribute '__version__'" >>
       [] kind = "nopath" ->
            << "import failed with ", "AttributeError", ": ",
               "module has no attribute '__path__'" >>
       [] OTHER ->
            << "import failed with ", "ImportError", ": ",
               "No module named ", modname >>

install_msg(pkg) ==
  IF pkg = None THEN << "not installed" >>
  ELSE << "OK (", pkg[1].project_name, " version ", pkg[1].version,
          " from ", pkg[1].location, ")" >>

_report_pypkg(name, modname, pkg) ==
  report(name, install_msg(pkg) \o <<" (">> \o import_msg(modname) \o <<")">>)

(* ------------------------------------------------------------------ *)
(* The compatibility rules                                             *)
(* ------------------------------------------------------------------ *)
\* The rule table with the upper bound of cupy-cuda90 made inclusive.
is_cuda_version_supported_inclusive(pkgname, v) ==
  CASE pkgname = "cupy"        -> 7000 <= v /\ v < 10000
    [] pkgname = "cupy-cuda80" -> 8000 <= v /\ v < 9000
    [] pkgname = "cupy-cuda90" -> 9000 <= v /\ v <= 9100
    [] pkgname = "cupy-cuda91" -> 9100 <= v /\ v < 9200

\* The lambdas of cupy_pkgs, applied to an int.
is_cuda_version_supported(pkgname, v) ==
  CASE pkgname = "cupy"        -> 7000 <= v /\ v < 10000
    [] pkgname = "cupy-cuda80" -> 8000 <= v /\ v < 9000
    [] pkgname = "cupy-cuda90" -> 9000 <= v /\ v < 9100
    [] pkgname = "cupy-cuda91" -> 9100 <= v /\ v < 9200

\* What applying a lambda to cudart_version does.  An int is compared.  On
\* None, Python 3 raises TypeError at '7000 <= None'; Python 2 orders None
\* below every int, so the first comparison is False.
CompareOutcome(pkgname) ==
  IF cudart_version = None
  THEN IF host.py = 3 THEN "TypeError" ELSE "unsupported"
  ELSE IF is_cuda_version_supported(pkgname, cudart_version[1])
       THEN "supported" ELSE "unsupported"

\* '{}'.format(cudart_version)
VersionText == IF cudart_version = None THEN "None" ELSE str(cudart_version[1])

UnsupportedWarning(pkgname) ==
  print(<< "*** ERROR: This CuPy package (", pkgname,
           ") does not support CUDA version ", VersionText, "!" >>)

MultipleWarning ==
  print(<< "*** ERROR: multiple CuPy packages are installed! ",
           "You can only install one of ", "[" >> \o cupy_pkgs \o << "]", "." >>)

\* os.environ's value of a variable.
EnvValue(k) == "/opt/lib"

\* The filter with the underscore of both prefixes forgotten.
IsLinkerVar_loose(k) ==
  startswith(k, <<"L","D">>) \/ startswith(k, <<"D","Y","L","D">>)

\* The filter of the Environment section.
IsLinkerVar(k) ==
  startswith(k, <<"L","D","_">>) \/ startswith(k, <<"D","Y","L","D","_">>)

(* ------------------------------------------------------------------ *)
(* main()                                                              *)
(* ------------------------------------------------------------------ *)
\* calls counts the invocations of each probe, imports lists the import
\* statements of the fallbacks that were executed, exc is the exception
\* main() died of.
Init ==
  /\ host \in Hosts
  /\ pc = "environment"
  /\ out = <<>>
  /\ envIdx = 1
  /\ cupyLoaded = FALSE
  /\ cudart_version = None
  /\ pkgIdx = 1
  /\ cupy_found = None
  /\ calls = [l \in ProbeLibs |-> 0]
  /\ imports = <<>>
  /\ exc = None

\* header('Environment'); report('Current Directory', os.getcwd())
EnvHeader ==
  /\ pc = "environment"
  /\ out' = out \o header("Environment")
                \o << report(<<"Current Directory">>, <<"/home/user">>) >>
  /\ envIdx' = 1
  /\ pc' = "env_loop"
  /\ UNCHANGED <<host, cupyLoaded, cudart_version, pkgIdx, cupy_found,
                 calls, imports, exc>>

\* One iteration of 'for (k, v) in os.environ.items()'.
EnvLoop ==
  /\ pc = "env_loop"
  /\ envIdx <= Len(host.environ)
  /\ LET k == host.environ[envIdx]
     IN out' = IF IsLinkerVar(k)
               THEN Append(out, report(<<"$">> \o k, <<EnvValue(k)>>))
               ELSE out
  /\ envIdx' = envIdx + 1
  /\ UNCHANGED <<host, pc, cupyLoaded, cudart_version, pkgIdx, cupy_found,
                 calls, imports, exc>>

\* header('Libraries'); cudart_version = None
LibHeader ==
  /\ pc = "env_loop"
  /\ envIdx > Len(host.environ)
  /\ out' = out \o header("Libraries")
  /\ cudart_version' = None
  /\ pc' = "driver"
  /\ UNCHANGED <<host, envIdx, cupyLoaded, pkgIdx, cupy_found, calls,
                 imports, exc>>

\* A fallback's 'try: import ... except: pass': the failure is discarded;
\* when the import works CuPy's extension is loaded from then on.
TryImport(mods) ==
  /\ imports' = imports \o mods
  /\ cupyLoaded' = (cupyLoaded \/ host.cupyExt)

\* if _report_cuda_driver('CUDA Driver') is None:
DriverDirect ==
  /\ pc = "driver"
  /\ LET r == _report_cuda_driver(<<"CUDA Driver">>)
     IN /\ out' = out \o r.lines
        /\ pc' = IF r.result = None THEN "driver_import" ELSE "runtime"
  /\ calls' = [calls EXCEPT !["cuda"] = @ + 1]
  /\ UNCHANGED <<host, envIdx, cupyLoaded, cudart_version, pkgIdx,
                 cupy_found, imports, exc>>

DriverImport ==
  /\ pc = "driver_import"
  /\ TryImport(<<"cupy.cuda.driver">>)
  /\ pc' = "driver_retry"
  /\ UNCHANGED <<host, out, envIdx, cudart_version, pkgIdx, cupy_found,
                 calls, exc>>

\* _report_cuda_driver('CUDA Driver (via CuPy)')
DriverRetry ==
  /\ pc = "driver_retry"
  /\ out' = out \o _report_cuda_driver(ViaCuPy("CUDA Driver")).lines
  /\ calls' = [calls EXCEPT !["cuda"] = @ + 1]
  /\ pc' = "runtime"
  /\ UNCHANGED <<host, envIdx, cupyLoaded, cudart_version, pkgIdx,
                 cupy_found, imports, exc>>

\* cudart_version = _report_cuda_runtime('CUDA Runtime')
RuntimeDirect ==
  /\ pc = "runtime"
  /\ LET r == _report_cuda_runtime(<<"CUDA Runtime">>)
     IN /\ out' = out \o r.lines
        /\ cudart_version' = r.result
        /\ pc' = IF r.result = None THEN "runtime_import" ELSE "cudnn"
  /\ calls' = [calls EXCEPT !["cudart"] = @ + 1]
  /\ UNCHANGED <<host, envIdx, cupyLoaded, pkgIdx, cupy_found, imports, exc>>

RuntimeImport ==
  /\ pc = "runtime_import"
  /\ TryImport(<<"cupy.cuda.runtime">>)
  /\ pc' = "runtime_retry"
  /\ UNCHANGED <<host, out, envIdx, cudart_version, pkgIdx, cupy_found,
                 calls, exc>>

\* cudart_version = _report_cuda_runtime('CUDA Runtime (via CuPy)')
RuntimeRetry ==
  /\ pc = "runtime_retry"
  /\ LET r == _report_cuda_runtime(ViaCuPy("CUDA Runtime"))
     IN /\ out' = out \o r.lines
        /\ cudart_version' = r.result
  /\ calls' = [calls EXCEPT !["cudart"] = @ + 1]
  /\ pc' = "cudnn"
  /\ UNCHANGED <<host, envIdx, cupyLoaded, pkgIdx, cupy_found, imports, exc>>

\* if not _report_cudnn('cuDNN'):
CudnnDirect ==
  /\ pc = "cudnn"
  /\ LET r == _report_cudnn(<<"cuDNN">>)
     IN /\ out' = out \o r.lines
        /\ pc' = IF ~r.result THEN "cudnn_import" ELSE "nccl"
  /\ calls' = [calls EXCEPT !["cudnn"] = @ + 1]
  /\ UNCHANGED <<host, envIdx, cupyLoaded, cudart_version, pkgIdx,
                 cupy_found, imports, exc>>

CudnnImport ==
  /\ pc = "cudnn_import"
  /\ TryImport(<<"cupy.cudnn", "cupy.cuda.cudnn">>)
  /\ pc' = "cudnn_retry"
  /\ UNCHANGED <<host, out, envIdx, cudart_version, pkgIdx, cupy_found,
                 calls, exc>>

CudnnRetry ==
  /\ pc = "cudnn_retry"
  /\ out' = out \o _report_cudnn(ViaCuPy("cuDNN")).lines
  /\ calls' = [calls EXCEPT !["cudnn"] = @ + 1]
  /\ pc' = "nccl"
  /\ UNCHANGED <<host, envIdx, cupyLoaded, cudart_version, pkgIdx,
                 cupy_found, imports, exc>>

\* if not _report_nccl('NCCL'):
NcclDirect ==
  /\ pc = "nccl"
  /\ LET r == _report_nccl(<<"NCCL">>)
     IN /\ out' = out \o r.lines
        /\ pc' = IF ~r.result THEN "nccl_import" ELSE "modules"
  /\ calls' = [calls EXCEPT !["nccl"] = @ + 1]
  /\ UNCHANGED <<host, envIdx, cupyLoaded, cudart_version, pkgIdx,
                 cupy_found, imports, exc>>

NcclImport ==
  /\ pc = "nccl_import"
  /\ TryImport(<<"cupy.cuda.nccl">>)
  /\ pc' = "nccl_retry"
  /\ UNCHANGED <<host, out, envIdx, cudart_version, pkgIdx, cupy_found,
                 calls, exc>>

NcclRetry ==
  /\ pc = "nccl_retry"
  /\ out' = out \o _report_nccl(ViaCuPy("NCCL")).lines
  /\ calls' = [calls EXCEPT !["nccl"] = @ + 1]
  /\ pc' = "modules"
  /\ UNCHANGED <<host, envIdx, cupyLoaded, cudart_version, pkgIdx,
                 cupy_found, imports, exc>>

\* header('Python Modules'); the Chainer line; cupy_found = None
ModHeader ==
  /\ pc = "modules"
  /\ out' = out \o header("Python Modules")
                \o << _report_pypkg(<<"Chainer">>, "chainer",
                                    get_package("chainer")) >>
  /\ cupy_found' = None
  /\ pkgIdx' = 1
  /\ pc' = "cupy_loop"
  /\ UNCHANGED <<host, envIdx, cupyLoaded, cudart_version, calls, imports,
                 exc>>

\* The lines one iteration of the loop over cupy_pkgs prints for an
\* installed package, up to the point where the lambda raises.
CuPyLines(pkgname, pkg, outcome) ==
  << _report_pypkg(<<"CuPy">>, "cupy", pkg) >>
  \o (IF outcome = "unsupported" THEN << UnsupportedWarning(pkgname) >>
      ELSE <<>>)
  \o (IF outcome # "TypeError" /\ cupy_found # None
      THEN << MultipleWarning >> ELSE <<>>)

\* One iteration of 'for (pkgname, is_cuda_version_supported) in cupy_pkgs'.
CuPyLoop ==
  /\ pc = "cupy_loop"
  /\ pkgIdx <= Len(cupy_pkgs)
  /\ LET pkgname == cupy_pkgs[pkgIdx]
         pkg == get_package(pkgname)
         outcome == CompareOutcome(pkgname)
     IN IF pkg = None
        THEN UNCHANGED <<out, cupy_found, pc, exc>>
        ELSE /\ out' = out \o CuPyLines(pkgname, pkg, outcome)
             /\ IF outcome = "TypeError"
                THEN /\ exc' = Some("TypeError")
                     /\ pc' = "raised"
                     /\ UNCHANGED cupy_found
                ELSE /\ cupy_found' = pkg
                     /\ UNCHANGED <<pc, exc>>
  /\ pkgIdx' = pkgIdx + 1
  /\ UNCHANGED <<host, envIdx, cupyLoaded, cudart_version, calls, imports>>

\* if cupy_found is None: _report_pypkg('CuPy', 'cupy', None)
CuPyNotFound ==
  /\ pc = "cupy_loop"
  /\ pkgIdx > Len(cupy_pkgs)
  /\ out' = IF cupy_found = None
            THEN Append(out, _report_pypkg(<<"CuPy">>, "cupy", None))
            ELSE out
  /\ pc' = "numpy"
  /\ UNCHANGED <<host, envIdx, cupyLoaded, cudart_version, pkgIdx,
                 cupy_found, calls, imports, exc>>

\* _report_pypkg('NumPy', 'numpy', get_package('numpy')); main() returns.
ReportNumPy ==
  /\ pc = "numpy"
  /\ out' = Append(out, _report_pypkg(<<"NumPy">>, "numpy",
                                      get_package("numpy")))
  /\ pc' = "done"
  /\ UNCHANGED <<host, envIdx, cupyLoaded, cudart_version, pkgIdx,
                 cupy_found, calls, imports, exc>>

Next ==
  \/ EnvHeader \/ EnvLoop \/ LibHeader
  \/ DriverDirect \/ DriverImport \/ DriverRetry
  \/ RuntimeDirect \/ RuntimeImport \/ RuntimeRetry
  \/ CudnnDirect \/ CudnnImport \/ CudnnRetry
  \/ NcclDirect \/ NcclImport \/ NcclRetry
  \/ ModHeader \/ CuPyLoop \/ CuPyNotFound \/ ReportNumPy

Spec == Init /\ [][Next]_vars

\* The process's exit status: 0 when main() returned, 1 when it raised.
Exited == pc \in {"done", "raised"}

ExitStatus == IF pc = "raised" THEN 1 ELSE 0

(* ------------------------------------------------------------------ *)
(* Reading the report                                                  *)
(* ------------------------------------------------------------------ *)
Lines(Test(_)) == {i \in 1..Len(out) : Test(out[i])}

IsRangeWarning(ln) ==
  /\ ln.kind = "print"
  /\ \E j \in 1..Len(ln.text) : ln.text[j] = ") does not support CUDA version "

\* A range warning that names package p and version text t.
RangeWarningOf(ln, p, t) ==
  /\ IsRangeWarning(ln)
  /\ Len(ln.text) = 5
  /\ ln.text[2] = p
  /\ ln.text[4] = t

IsMultipleLine(ln) ==
  /\ ln.kind = "print"
  /\ Len(ln.text) >= 1
  /\ ln.text[1] = "*** ERROR: multiple CuPy packages are installed! "

IsTitled(ln, title) == ln.kind = "report" /\ ln.title = title

InstalledRules == CupyPkgNames \cap host.pkgs

RuleIndex(p) == CHOOSE i \in 1..Len(cupy_pkgs) : cupy_pkgs[i] = p

\* The loop over cupy_pkgs has dealt with package p.
RuleDone(p) ==
  \/ pc \in {"numpy", "done"}
  \/ pc = "cupy_loop" /\ RuleIndex(p) < pkgIdx

\* The compatibility validator has run to its end or died.
ValidatorOver == pc \in {"numpy", "done", "raised"}

\* The fixed ranges of the four rule packages, as the claims state them.
InStatedRange(p, v) ==
  \/ p = "cupy" /\ v >= 7000 /\ v < 10000
  \/ p = "cupy-cuda80" /\ v >= 8000 /\ v < 9000
  \/ p = "cupy-cuda90" /\ v >= 9000 /\ v < 9100
  \/ p = "cupy-cuda91" /\ v >= 9100 /\ v < 9200

(* ------------------------------------------------------------------ *)
(* C1                                                                  *)
(* ------------------------------------------------------------------ *)
\* C1: when the Runtime Version reaching the validator is absent, then for
\* every set of installed rule packages the validator emits no 'does not
\* support CUDA version' warning and does not fail, and the 'multiple CuPy
\* packages are installed' warning appears exactly when two or more rule
\* packages are installed.
C1_AbsentVersionSkipsRangeCheck ==
  (ValidatorOver /\ cudart_version = None) =>
     /\ Lines(IsRangeWarning) = {}
     /\ exc = None
     /\ (Lines(IsMultipleLine) # {}) <=> (Cardinality(InstalledRules) >= 2)

(* ------------------------------------------------------------------ *)
(* C2                                                                  *)
(* ------------------------------------------------------------------ *)
\* C2: for every combination of outcomes of the external lookups main()
\* reaches its end: when the run is over, the NumPy line has been printed,
\* no exception has left main() and the exit status is 0.
C2_MainReachesEnd ==
  Exited =>
     /\ pc = "done"
     /\ exc = None
     /\ ExitStatus = 0
     /\ Lines(LAMBDA ln : IsTitled(ln, <<"NumPy">>)) # {}

(* ------------------------------------------------------------------ *)
(* C3                                                                  *)
(* ------------------------------------------------------------------ *)
\* C3: for every present Runtime Version v and every set of installed rule
\* packages, a 'does not support CUDA version' warning is printed for a
\* package p exactly when p is installed, the loop has dealt with p and p's
\* stated range excludes v; it is printed once and names p and v; every
\* range warning in the report is one of these.
C3_RangeWarningIffExcluded ==
  cudart_version # None =>
     LET v == cudart_version[1]
     IN /\ \A p \in CupyPkgNames :
             LET ws == Lines(LAMBDA ln : RangeWarningOf(ln, p, ToString(v)))
             IN IF p \in host.pkgs /\ RuleDone(p) /\ ~InStatedRange(p, v)
                THEN Cardinality(ws) = 1
                ELSE ws = {}
        /\ \A i \in Lines(IsRangeWarning) :
             \E p \in InstalledRules : RangeWarningOf(out[i], p, ToString(v))

\* C3 witness: version 9050 with cupy-cuda90 and cupy-cuda91 installed; the
\* run is over, cupy-cuda91 got its warning and cupy-cuda90 none.
C3_Witness ==
  /\ pc = "done"
  /\ cudart_version = Some(9050)
  /\ InstalledRules = {"cupy-cuda90", "cupy-cuda91"}
  /\ Lines(LAMBDA ln : RangeWarningOf(ln, "cupy-cuda91", "9050")) # {}
  /\ Lines(LAMBDA ln : RangeWarningOf(ln, "cupy-cuda90", "9050")) = {}

(* ------------------------------------------------------------------ *)
(* C4                                                                  *)
(* ------------------------------------------------------------------ *)
\* C4: once the validator is over, if more than one rule package is
\* installed the report holds one 'multiple CuPy packages are installed'
\* line, which lists all four candidate names; if zero or one is installed
\* it holds none; whatever the Runtime Version is.
C4_OneMultipleWarning ==
  ValidatorOver =>
     /\ Cardinality(Lines(IsMultipleLine)) =
           (IF Cardinality(InstalledRules) > 1 THEN 1 ELSE 0)
     /\ \A i \in Lines(IsMultipleLine) :
           \A p \in CupyPkgNames :
              \E j \in 1..Len(out[i].text) : out[i].text[j] = p

(* ------------------------------------------------------------------ *)
(* C5                                                                  *)
(* ------------------------------------------------------------------ *)
ProbeLabel ==
  [cuda |-> "CUDA Driver", cudart |-> "CUDA Runtime", cudnn |-> "cuDNN",
   nccl |-> "NCCL"]

\* The position of main() right after the probe of a library is complete.
ProbeOverAt ==
  [cuda |-> "runtime", cudart |-> "cudnn", cudnn |-> "nccl",
   nccl |-> "modules"]

Companion ==
  [cuda |-> "cupy.cuda.driver", cudart |-> "cupy.cuda.runtime",
   cudnn |-> "cupy.cuda.cudnn", nccl |-> "cupy.cuda.nccl"]

IsNotFoundLine(ln) ==
  ln.kind = "report" /\ ln.text \in {<<"not found">>, <<"not found (optional)">>}

\* C5: each of the four probes runs at most twice.  When its probe is
\* complete, either it ran once and its one line, under the plain label,
\* reports the library found; or it ran twice: the first line, under the
\* plain label, reports not found, the companion import was attempted, and
\* the second line, found or not found, carries the label suffixed
\* ' (via CuPy)'.
C5_RetryOnceUnderViaLabel ==
  \A l \in ProbeLibs :
     /\ calls[l] <= 2
     /\ pc = ProbeOverAt[l] =>
          LET n == Len(out)
          IN \/ /\ calls[l] = 1
                /\ out[n].title = <<ProbeLabel[l]>>
                /\ ~IsNotFoundLine(out[n])
             \/ /\ calls[l] = 2
                /\ out[n - 1].title = <<ProbeLabel[l]>>
                /\ IsNotFoundLine(out[n - 1])
                /\ \E j \in 1..Len(imports) : imports[j] = Companion[l]
                /\ out[n].kind = "report"
                /\ out[n].title = <<ProbeLabel[l], " (via CuPy)">>

(* ------------------------------------------------------------------ *)
(* C6                                                                  *)
(* ------------------------------------------------------------------ *)
\* The label the last run of the probe of library l was given.
LastLabel(l) ==
  IF calls[l] = 2 THEN <<ProbeLabel[l], " (via CuPy)">> ELSE <<ProbeLabel[l]>>

\* C6: for the driver and runtime probes, when the library was found and
\* the entry point returned a non-zero status c, the probe's line is
\* '<label>: (ERROR c!)' and is not reported as 'OK'; when the status is 0
\* the line is '<label>: OK (version <v> from <path>)'.  In both cases the
\* remaining checks still run.
C6_ErrorStatusLine ==
  \A l \in {"cuda", "cudart"} :
     (pc = ProbeOverAt[l] /\ ~IsNotFoundLine(out[Len(out)])) =>
        LET ln == out[Len(out)]
            c == host.ret[l]
        IN /\ ln.kind = "report"
           /\ ln.title = LastLabel(l)
           /\ IF c # 0
              THEN /\ ln.text = <<"(ERROR ", ToString(c), "!)">>
                   /\ ln.text[1] # "OK (version "
              ELSE /\ Len(ln.text) = 5
                   /\ ln.text[1] = "OK (version "
                   /\ ln.text[2] = ToString(host.ver[l])
                   /\ ln.text[3] = " from "
                   /\ ln.text[5] = ")"
           /\ pc # "raised"

(* ------------------------------------------------------------------ *)
(* C7                                                                  *)
(* ------------------------------------------------------------------ *)
\* The Chainer line, the last line once the header action has run.
ChainerLineAt == pc = "cupy_loop" /\ pkgIdx = 1

\* C7: the module import probe prints one line per call.  When the import
\* succeeds the line reports the module's version and path, with
\* '(unknown version)' for a module without a version attribute, and does
\* not report an import failure; when the import fails it reports the
\* failure's type name and message.  (Stated on the Chainer and NumPy
\* calls, for modules that have a path.)
C7_ImportProbeLine ==
  \A m \in {"chainer", "numpy"} :
     ((m = "chainer" /\ ChainerLineAt) \/ (m = "numpy" /\ pc = "done")) =>
        LET ln == out[Len(out)]
            title == IF m = "chainer" THEN <<"Chainer">> ELSE <<"NumPy">>
            kind == host.mods[m]
            hit(t) == \E j \in 1..Len(ln.text) : ln.text[j] = t
        IN /\ IsTitled(ln, title)
           /\ Cardinality(Lines(LAMBDA x : IsTitled(x, title))) = 1
           /\ kind = "ok" => hit("importing ") /\ ~hit("import failed with ")
           /\ kind = "nover" =>
                 /\ hit("importing ")
                 /\ hit("(unknown version)")
                 /\ ~hit("import failed with ")
           /\ kind = "fail" => hit("import failed with ") /\ hit("ImportError")

(* ------------------------------------------------------------------ *)
(* C8                                                                  *)
(* ------------------------------------------------------------------ *)
\* The installed rule packages in table order.
InstalledInOrder == SelectSeq(cupy_pkgs, LAMBDA p : p \in host.pkgs)

CuPyReportLines == SelectSeq(out, LAMBDA ln : IsTitled(ln, <<"CuPy">>))

\* C8: when the run is over, the 'CuPy' lines of the report are one line
\* per installed rule package, in table order, each carrying that
\* package's metadata and none saying 'not installed'; or, when no rule
\* package is installed, exactly one line saying 'not installed'.  The
\* Chainer line precedes and the NumPy line follows all CuPy lines and
\* warnings.
C8_CuPyLinesFollowInstalled ==
  Exited =>
     LET ls == CuPyReportLines
         between == Lines(LAMBDA ln : IsTitled(ln, <<"CuPy">>)
                                      \/ IsRangeWarning(ln)
                                      \/ IsMultipleLine(ln))
         chainer == Lines(LAMBDA ln : IsTitled(ln, <<"Chainer">>))
         numpy == Lines(LAMBDA ln : IsTitled(ln, <<"NumPy">>))
     IN /\ IF InstalledInOrder = <<>>
           THEN Len(ls) = 1 /\ ls[1].text[1] = "not installed"
           ELSE /\ Len(ls) = Len(InstalledInOrder)
                /\ \A i \in 1..Len(ls) :
                      /\ ls[i].text[1] = "OK ("
                      /\ ls[i].text[2] = InstalledInOrder[i]
        /\ Cardinality(chainer) = 1
        /\ Cardinality(numpy) = 1
        /\ \A b \in between : \A c \in chainer : \A n \in numpy :
              c < b /\ b < n

(* ------------------------------------------------------------------ *)
(* C9                                                                  *)
(* ------------------------------------------------------------------ *)
\* The two prefixes as the claim states them.
HasStatedPrefix(k) ==
  \/ Len(k) >= 3 /\ k[1] = "L" /\ k[2] = "D" /\ k[3] = "_"
  \/ Len(k) >= 5 /\ k[1] = "D" /\ k[2] = "Y" /\ k[3] = "L" /\ k[4] = "D"
       /\ k[5] = "_"

\* The loop over os.environ has dealt with the variable named k.
EnvSeen(k) ==
  \E i \in 1..Len(host.environ) :
     /\ host.environ[i] = k
     /\ pc # "environment"
     /\ pc = "env_loop" => i < envIdx

\* C9: a variable of the environment is echoed, as one line labelled
\* '$NAME' with its value, if and only if its name begins with 'LD_' or
\* 'DYLD_': every such variable the loop has dealt with is echoed exactly
\* once, and no line labelled '$...' exists for any other name.
C9_EchoIffLinkerPrefix ==
  /\ \A k \in EnvNames :
        LET echoed == Lines(LAMBDA ln : IsTitled(ln, <<"$">> \o k))
        IN IF EnvSeen(k) /\ HasStatedPrefix(k)
           THEN /\ Cardinality(echoed) = 1
                /\ \A i \in echoed : out[i].text = <<EnvValue(k)>>
           ELSE echoed = {}
  /\ \A i \in Lines(LAMBDA ln : ln.kind = "report" /\ ln.title[1] = "$") :
        \E k \in EnvNames :
           out[i].title = <<"$">> \o k /\ EnvSeen(k) /\ HasStatedPrefix(k)

\* C9 witness: the Environment section is complete on a host whose
\* environment holds a variable with a stated prefix, which was echoed, and
\* one without, which was not.
C9_Witness ==
  /\ pc = "driver"
  /\ \E k1, k2 \in EnvNames :
        /\ EnvSeen(k1) /\ HasStatedPrefix(k1)
        /\ EnvSeen(k2) /\ ~HasStatedPrefix(k2)
        /\ Lines(LAMBDA ln : IsTitled(ln, <<"$">> \o k1)) # {}
        /\ Lines(LAMBDA ln : IsTitled(ln, <<"$">> \o k2)) = {}

(* ------------------------------------------------------------------ *)
(* C10                                                                 *)
(* ------------------------------------------------------------------ *)
\* main() is past both runs of the runtime probe.
RuntimeOver ==
  pc \notin {"environment", "env_loop", "driver", "driver_import",
             "driver_retry", "runtime", "runtime_import", "runtime_retry"}

\* A run of the runtime probe found the library.
RuntimeFound ==
  \E i \in 1..Len(out) :
     /\ out[i].kind = "report"
     /\ out[i].title[1] = "CUDA Runtime"
     /\ ~IsNotFoundLine(out[i])

\* C10: the Runtime Version the validator consumes is present only if a
\* runtime query obtained a version (library found and status 0), and then
\* equals the version the library reported; if the library is found by
\* neither run, or the query returns a non-zero status, the version is
\* absent and no range warning results.
C10_VersionOnlyFromGoodQuery ==
  RuntimeOver =>
     LET obtained == RuntimeFound /\ host.ret["cudart"] = 0
     IN /\ (cudart_version # None) <=> obtained
        /\ cudart_version # None => cudart_version[1] = host.ver["cudart"]
        /\ ~obtained => Lines(IsRangeWarning) = {}

====
